---- MODULE Spec2Model ----
(***************************************************************************)
(* Model of peloton_sync.data_loader.DataLoader.full_sync and the          *)
(* SQLAlchemy session it runs on (peloton_sync.database.get_session).      *)
(*                                                                         *)
(* db is the committed content of the PostgreSQL tables of models.py, tx   *)
(* is what the open transaction of the session would commit (flushed and   *)
(* pending changes; the session is created with autoflush=False, and no    *)
(* query of the code reads a table that has a pending change).  Constraint *)
(* violations (NOT NULL, FOREIGN KEY, UNIQUE) surface when the session     *)
(* flushes: in sync_user_data's flush() and in every commit().             *)
(***************************************************************************)
EXTENDS Integers, Sequences, FiniteSets, TLC

VARIABLES
    db,                  \* committed rows of every table
    tx,                  \* rows as the open transaction sees them
    pc,                  \* position of full_sync
    run,                 \* number of full_sync calls so far; also the clock
    authUser,            \* api_client.user_id
    authenticated,       \* api_client._authenticated
    user_id,             \* full_sync's user_id argument
    include_performance, \* full_sync's include_performance argument
    target_user_id,      \* full_sync's local target_user_id
    listed,              \* "no", "ok" or "failed": the get_user_workouts request
    listing_len,         \* len(workouts): the number of payloads of the listing
    idx,                 \* index of the payload the loop is at
    stats,               \* sync_workouts' stats dictionary
    outcomes,            \* history: "created", "updated" or "failed" per payload
    last,                \* history: the payload the loop finished last, how it
                         \* ended and how many metric rows it had before
    cur,                 \* the payload between its reconciliation and its commit
    exc,                 \* the exception full_sync raised, or where it came from
    result               \* the dictionary full_sync returned

vars == <<db, tx, pc, run, authUser, authenticated, user_id, include_performance,
          target_user_id, listed, listing_len, idx, stats, outcomes, last, cur,
          exc, result>>

----------------------------------------------------------------------------
(* Bounds *)

MaxRuns == 2        \* full_sync calls in one behaviour
MaxListing == 2     \* payloads in one listing

NULL == "NULL"      \* Python's None, SQL's NULL, where the value is a string
NoTime == 0         \* None where the value is a timestamp
Malformed == -1     \* a JSON element that is no object, where a number is expected
None == <<>>        \* an absent nested object; a present one is <<object>>

WorkoutIds == {"w1", "w2"}

\* the accounts the API client can be logged in to
AuthUsers == {"u1", "u2"}

\* the user_id argument full_sync is called with by account u:
\* PelotonDataSync.sync_data passes none; a caller logged in as u2 may also
\* name u1
UserIdArgs(u) == IF u = "u2" THEN {NULL, "u1"} ELSE {NULL}

----------------------------------------------------------------------------
(* Helpers *)

Last(s) == s[Len(s)]

Range(s) == {s[i] : i \in 1..Len(s)}

NoDuplicates(s) == \A i, j \in 1..Len(s) : i # j => s[i] # s[j]

----------------------------------------------------------------------------
(* The tables of models.py.  A table with a string primary key is a        *)
(* function from the keys present to rows; the child tables (autoincrement *)
(* keys) are one sequence of rows per workout.                             *)

EmptyStore ==
    [users        |-> <<>>,
     instructors  |-> <<>>,
     rides        |-> <<>>,
     workouts     |-> <<>>,
     summaries    |-> <<>>,
     metrics      |-> [w \in WorkoutIds |-> <<>>],
     achievements |-> [w \in WorkoutIds |-> <<>>],
     sync_logs    |-> <<>>]

\* nullable=False columns that the transformer can leave None
NotNullViolations(s) ==
    {<<"users", u>> : u \in {k \in DOMAIN s.users : s.users[k].created_at = NoTime}}
    \cup {<<"workouts", w>> : w \in {k \in DOMAIN s.workouts :
                                      \/ s.workouts[k].start_time = NoTime
                                      \/ s.workouts[k].user_id = NULL}}

\* a database that does not enforce foreign keys
ForeignKeysUnenforced(s) == {}

\* ForeignKey(...) columns
ForeignKeyViolations(s) ==
    {<<"workouts.user_id", w>> : w \in {k \in DOMAIN s.workouts :
                                      s.workouts[k].user_id \notin DOMAIN s.users}}
    \cup {<<"workouts.ride_id", w>> : w \in {k \in DOMAIN s.workouts :
                                      s.workouts[k].ride_id \notin DOMAIN s.rides \cup {NULL}}}
    \cup {<<"rides.instructor_id", r>> : r \in {k \in DOMAIN s.rides :
                                      s.rides[k].instructor_id \notin DOMAIN s.instructors \cup {NULL}}}
    \cup {<<"sync_logs.user_id", i>> : i \in {k \in DOMAIN s.sync_logs :
                                      s.sync_logs[k].user_id \notin DOMAIN s.users}}

\* uq_workout_metric_time
MetricUniqueViolations(s) ==
    {<<"uq_workout_metric_time", w>> : w \in {k \in WorkoutIds :
        ~NoDuplicates([i \in 1..Len(s.metrics[k]) |->
                          s.metrics[k][i].seconds_since_pedaling_start])}}

\* uq_workout_achievement
AchievementUniqueViolations(s) ==
    {<<"uq_workout_achievement", w>> : w \in {k \in WorkoutIds :
        ~NoDuplicates([i \in 1..Len(s.achievements[k]) |->
                          s.achievements[k][i].achievement_id])}}

\* what a flush of s makes the database reject (IntegrityError)
Violations(s) ==
    NotNullViolations(s) \cup ForeignKeyViolations(s)
    \cup MetricUniqueViolations(s) \cup AchievementUniqueViolations(s)

----------------------------------------------------------------------------
(* for key, value in candidate.__dict__.items():                           *)
(*     if not key.startswith('_') and key not in blocked: setattr(...)     *)
(* followed by existing.updated_at = now                                   *)

CopyFields(existing, candidate, blocked, now) ==
    [k \in DOMAIN existing |->
        IF k = "updated_at" THEN now
        ELSE IF k \in (DOMAIN candidate) \ blocked THEN candidate[k]
        ELSE existing[k]]

\* session.add(candidate): the columns the constructor left unset take their
\* defaults (created_at and updated_at default to func.now())
Inserted(candidate, now) ==
    candidate @@ [created_at |-> now, updated_at |-> now]

\* session.add_all(candidates) for the child tables, which have created_at only
InsertedAll(candidates, now) ==
    [i \in 1..Len(candidates) |-> candidates[i] @@ [created_at |-> now]]

----------------------------------------------------------------------------
(* data_transformer.py: the candidates built from the API's JSON.  A       *)
(* candidate has the attributes its constructor sets.                      *)

\* transform_user_data: user_data["id"], _parse_timestamp(created_at)
transform_user_data(user_data) ==
    [id |-> user_data.id, created_at |-> user_data.created_at]

transform_instructor_data(instructor_data) ==
    [id |-> instructor_data.id]

transform_ride_data(ride_data) ==
    [id |-> ride_data.id, instructor_id |-> ride_data.instructor_id]

transform_workout_data(workout_data) ==
    [id |-> workout_data.id,
     user_id |-> workout_data.user_id,
     ride_id |-> IF workout_data.ride # None THEN workout_data.ride[1].id ELSE NULL,
     status |-> workout_data.status,
     start_time |-> workout_data.start_time,
     has_pedaling_metrics |-> workout_data.has_pedaling_metrics]

\* workout_data["id"] raises KeyError when the payload has no id
ExtractRaises(workout_data) == workout_data.id = NULL

\* extract_workout_components: <<instructor, ride, workout>>
extract_workout_components(workout_data) ==
    LET ride_data == workout_data.ride
        instructor_data == IF ride_data # None THEN ride_data[1].instructor ELSE None
    IN  [instructor |-> IF instructor_data # None
                        THEN <<transform_instructor_data(instructor_data[1])>>
                        ELSE None,
         ride |-> IF ride_data # None
                  THEN <<transform_ride_data(ride_data[1])>>
                  ELSE None,
         workout |-> transform_workout_data(workout_data)]

\* achievement_data.get(...) raises AttributeError on an element that is no dict
TransformAchievementsRaises(achievements_data) == "BAD" \in Range(achievements_data)

transform_achievement_data(achievements_data) ==
    [i \in 1..Len(achievements_data) |->
        [achievement_id |-> achievements_data[i]]]

TransformMetricsRaises(metrics_data) == Malformed \in Range(metrics_data)

transform_performance_metrics_data(metrics_data) ==
    [i \in 1..Len(metrics_data) |->
        [seconds_since_pedaling_start |-> metrics_data[i]]]

transform_performance_summary_data(workout_id, summary_data) ==
    [workout_id |-> workout_id, total_work |-> summary_data]

----------------------------------------------------------------------------
(* data_loader.py: the upserts.  Each takes the transaction's rows and     *)
(* gives the rows after the call.                                          *)

UserBlocked == {"id"}
RowBlocked == {"id", "created_at"}

\* sync_user_data, lines 49-61 (the flush of line 63 is in the action)
upsert_user(s, user, now) ==
    IF user.id \in DOMAIN s.users
    THEN [s EXCEPT !.users[user.id] = CopyFields(@, user, UserBlocked, now)]
    ELSE [s EXCEPT !.users = @ @@ (user.id :> Inserted(user, now))]

upsert_instructor(s, instructor, now) ==
    IF instructor.id \in DOMAIN s.instructors
    THEN [s EXCEPT !.instructors[instructor.id] = CopyFields(@, instructor, RowBlocked, now)]
    ELSE [s EXCEPT !.instructors = @ @@ (instructor.id :> Inserted(instructor, now))]

upsert_ride(s, ride, now) ==
    IF ride.id \in DOMAIN s.rides
    THEN [s EXCEPT !.rides[ride.id] = CopyFields(@, ride, RowBlocked, now)]
    ELSE [s EXCEPT !.rides = @ @@ (ride.id :> Inserted(ride, now))]

\* an upsert that reports every candidate as new
is_new_always(s, workout) == TRUE

\* upsert_workout's second result
is_new(s, workout) == workout.id \notin DOMAIN s.workouts

\* an upsert that replaces the row by the candidate
upsert_workout_replace(s, workout, now) ==
    [s EXCEPT !.workouts = (workout.id :> Inserted(workout, now)) @@ @]

upsert_workout(s, workout, now) ==
    IF workout.id \in DOMAIN s.workouts
    THEN [s EXCEPT !.workouts[workout.id] = CopyFields(@, workout, RowBlocked, now)]
    ELSE [s EXCEPT !.workouts = @ @@ (workout.id :> Inserted(workout, now))]

\* an empty list taken as "the workout has no achievements": delete all
sync_workout_achievements_clears(s, workout_data, now) ==
    IF workout_data.id = NULL THEN s
    ELSE [s EXCEPT !.achievements[workout_data.id] =
              InsertedAll(transform_achievement_data(workout_data.achievement_templates),
                          now)]

\* a delete that is not filtered by workout: the achievements of every other
\* workout go too
sync_workout_achievements_unfiltered(s, workout_data, now) ==
    IF workout_data.id = NULL THEN s
    ELSE IF workout_data.achievement_templates = <<>> THEN s
    ELSE [s EXCEPT !.achievements =
              [w \in WorkoutIds |->
                  IF w = workout_data.id
                  THEN InsertedAll(transform_achievement_data(
                                       workout_data.achievement_templates), now)
                  ELSE <<>>]]

\* sync_workout_achievements, when transform_achievement_data does not raise
sync_workout_achievements(s, workout_data, now) ==
    IF workout_data.id = NULL THEN s
    ELSE IF workout_data.achievement_templates = <<>> THEN s
    ELSE [s EXCEPT !.achievements[workout_data.id] =
              InsertedAll(transform_achievement_data(workout_data.achievement_templates),
                          now)]

\* lines 159-169: the summary upsert; the autoincrement id of a new row is
\* the next unused one
upsert_summary(s, perf_summary, now) ==
    LET w == perf_summary.workout_id IN
    IF w \in DOMAIN s.summaries
    THEN [s EXCEPT !.summaries[w] = CopyFields(@, perf_summary, RowBlocked, now)]
    ELSE [s EXCEPT !.summaries = @ @@
              (w :> Inserted(perf_summary @@ [id |-> Cardinality(DOMAIN s.summaries) + 1], now))]

\* a merge by time offset instead of delete and insert: rows of the old
\* series whose offset the new series lacks are kept
sync_metrics_merge(s, workout_id, metrics_data, now) ==
    IF metrics_data = <<>> \/ TransformMetricsRaises(metrics_data) THEN s
    ELSE [s EXCEPT !.metrics[workout_id] =
              InsertedAll(transform_performance_metrics_data(metrics_data), now)
              \o SelectSeq(@, LAMBDA row :
                     row.seconds_since_pedaling_start \notin Range(metrics_data))]

\* lines 172-183, up to the point where the try block is left
sync_metrics(s, workout_id, metrics_data, now) ==
    IF metrics_data = <<>> THEN s
    ELSE IF TransformMetricsRaises(metrics_data)
         THEN [s EXCEPT !.metrics[workout_id] = <<>>]
         ELSE [s EXCEPT !.metrics[workout_id] =
                   InsertedAll(transform_performance_metrics_data(metrics_data), now)]

\* a detail sync that stores the first summary snapshot
sync_workout_performance_data_first(s, workout_id, perf_data, now) ==
    IF ~perf_data.ok THEN s
    ELSE LET summary_data == perf_data.summaries
             afterSummary ==
                 IF summary_data = <<>> THEN s
                 ELSE upsert_summary(s,
                          transform_performance_summary_data(
                              workout_id, Head(summary_data)), now)
         IN  IF summary_data # <<>> /\ Head(summary_data) = Malformed
             THEN s
             ELSE sync_metrics(afterSummary, workout_id, perf_data.metrics, now)

\* sync_workout_performance_data: perf_data is the response of
\* get_workout_performance_graph; the request raised when ok is FALSE.  Every
\* exception ends the try block and is swallowed; what was done stays done.
sync_workout_performance_data(s, workout_id, perf_data, now) ==
    IF ~perf_data.ok THEN s
    ELSE LET summary_data == perf_data.summaries
             afterSummary ==
                 IF summary_data = <<>> THEN s
                 ELSE upsert_summary(s,
                          transform_performance_summary_data(
                              workout_id, Last(summary_data)), now)
         IN  IF summary_data # <<>> /\ Last(summary_data) = Malformed
             THEN s
             ELSE sync_metrics(afterSummary, workout_id, perf_data.metrics, now)

----------------------------------------------------------------------------
(* What the remote source answers *)

\* /api/me: "created_at" of the user (NoTime: absent or unparseable)
RemoteCreatedAts == {NoTime, 1, 2}

RideWithInstructor ==
    <<[id |-> "r1", instructor_id |-> "i1", instructor |-> <<[id |-> "i1"]>>]>>
RideWithoutInstructor ==
    <<[id |-> "r1", instructor_id |-> NULL, instructor |-> None]>>
\* instructor_id set, but the joined instructor object is missing
RideInstructorNotJoined ==
    <<[id |-> "r1", instructor_id |-> "i1", instructor |-> None]>>

\* a workout of user u that the store accepts and that has no detail data
Plain(w, u) ==
    [id |-> w, user_id |-> u, ride |-> None, start_time |-> 1,
     status |-> "IN_PROGRESS", has_pedaling_metrics |-> FALSE,
     achievement_templates |-> <<>>]

\* a finished ride with pedaling metrics
Complete(w, u) ==
    [Plain(w, u) EXCEPT !.status = "COMPLETE", !.has_pedaling_metrics = TRUE]

\* the payloads a listing of user u is made of
Payloads(u) ==
    {Plain(w, u) : w \in WorkoutIds}
    \cup {Complete("w1", u)}
    \cup {[Plain("w1", u) EXCEPT !.id = NULL],
          [Plain("w1", u) EXCEPT !.start_time = NoTime],
          [Plain("w1", u) EXCEPT !.status = "COMPLETE"],
          [Plain("w1", u) EXCEPT !.has_pedaling_metrics = TRUE]}
    \cup {[Plain("w1", u) EXCEPT !.ride = r] :
             r \in {RideWithInstructor, RideWithoutInstructor, RideInstructorNotJoined}}
    \cup {[Plain("w1", u) EXCEPT !.achievement_templates = a] :
             a \in {<<"a1">>, <<"a2", "a1">>, <<"a1", "a1">>, <<"BAD">>}}
    \cup {[Plain("w2", u) EXCEPT !.achievement_templates = <<"a1">>]}

\* the workout history of each account: u1 has every kind of payload, u2 a
\* single plain workout
AccountPayloads(u) ==
    IF u = "u1" THEN Payloads(u) ELSE {Plain("w2", u)}

\* the answers of /api/workout/<id>/performance_graph
PerfResponses ==
    {[ok |-> FALSE, summaries |-> <<>>, metrics |-> <<>>]}
    \cup {[ok |-> TRUE, summaries |-> <<>>, metrics |-> <<>>],
          [ok |-> TRUE, summaries |-> <<1, 2>>, metrics |-> <<0, 5>>]}
    \cup {[ok |-> TRUE, summaries |-> <<1>>, metrics |-> m] :
             m \in {<<0>>, <<0, 0>>, <<0, Malformed>>}}
    \cup {[ok |-> TRUE, summaries |-> <<Malformed>>, metrics |-> <<0>>]}

----------------------------------------------------------------------------
(* The state after init_database(): empty tables, no run started *)

NoStats == [processed |-> 0, created |-> 0, updated |-> 0, errors |-> 0]

Init ==
    /\ db = EmptyStore
    /\ tx = EmptyStore
    /\ pc = "idle"
    /\ run = 0
    /\ authUser = NULL
    /\ authenticated = FALSE
    /\ user_id = NULL
    /\ include_performance = TRUE
    /\ target_user_id = NULL
    /\ listed = "no"
    /\ listing_len = 0
    /\ idx = 0
    /\ stats = NoStats
    /\ outcomes = <<>>
    /\ last = None
    /\ cur = None
    /\ exc = NULL
    /\ result = None

\* datetime.now(timezone.utc): the clock advances from run to run and, within
\* a run, from one payload of the loop to the next
ClockStride == MaxListing + 2
Now == run * ClockStride + idx

\* a rollback that keeps the pending changes in the session
RollbackKeepsPending(committed, pending) == pending

\* session.rollback(), session.close(): the open transaction is discarded
Rollback(committed, pending) == committed

\* a commit that does not reach the database
CommitLost(committed, pending) == committed

\* session.commit() when the flush is accepted: the transaction's rows are
\* the committed rows
Commit(committed, pending) == pending

----------------------------------------------------------------------------
(* full_sync is called: get_db_session() opens a session.  The caller has   *)
(* authenticated the API client before (PelotonDataSync.initialize does) or *)
(* has not.                                                                 *)

StartRun ==
    /\ pc \in {"idle", "done", "raised", "interrupted", "init_failed"}
    /\ run < MaxRuns
    /\ run' = run + 1
    /\ \E u \in AuthUsers, ip \in BOOLEAN, logged_in \in BOOLEAN :
       \E arg \in UserIdArgs(u) :
          /\ authUser' = u
          /\ authenticated' = logged_in
          /\ user_id' = arg
          /\ include_performance' = ip
    /\ tx' = db
    /\ pc' = "user"
    /\ target_user_id' = NULL
    /\ listed' = "no"
    /\ listing_len' = 0
    /\ idx' = 0
    /\ stats' = NoStats
    /\ outcomes' = <<>>
    /\ last' = None
    /\ cur' = None
    /\ exc' = NULL
    /\ result' = None
    /\ UNCHANGED db

\* full_sync's except block: rollback, raise (then get_session's rollback
\* and close)
Raise(what) ==
    /\ tx' = Rollback(db, tx)
    /\ pc' = "raised"
    /\ exc' = what

\* a client that does not remember that it has logged in
authenticate_forgets(was) == was

\* authenticate, when the login is accepted: self._authenticated = True
authenticate(was) == TRUE

\* _ensure_authenticated: a login is attempted, and can fail, only when the
\* client is not authenticated; otherwise the request is sent, and can fail
RequestOutcomes(is_authenticated) ==
    {"ok", "request_failed"}
    \cup (IF is_authenticated THEN {} ELSE {"auth_failed"})

\* line 368-369: sync_user_data and target_user_id
SyncUserData ==
    /\ pc = "user"
    /\ \E outcome \in RequestOutcomes(authenticated), c \in RemoteCreatedAts :
          IF outcome = "auth_failed"
          THEN /\ Raise("authenticate")
               /\ UNCHANGED <<target_user_id, authenticated>>
          ELSE IF outcome = "request_failed"
          THEN /\ Raise("get_user_info")
               /\ authenticated' = authenticate(authenticated)
               /\ UNCHANGED target_user_id
          ELSE LET user == transform_user_data([id |-> authUser, created_at |-> c])
                   s == upsert_user(tx, user, Now)
               IN  /\ authenticated' = authenticate(authenticated)
                   /\ IF Violations(s) # {}
                      THEN /\ Raise("flush")
                           /\ UNCHANGED target_user_id
                      ELSE /\ tx' = s
                           /\ pc' = "list"
                           /\ target_user_id' = IF user_id # NULL THEN user_id ELSE user.id
                           /\ UNCHANGED exc
    /\ UNCHANGED <<db, run, authUser, user_id, include_performance, listed,
                   listing_len, idx, stats, outcomes, last, cur, result>>

\* sync_workouts returns when the loop is over
AfterPayload(i) == IF i > listing_len THEN "ledger" ELSE "loop"

\* an outer except block that does not count the failure
ListingFailedUncounted(st) == st

\* line 293, in the outer except block of sync_workouts
ListingFailed(st) == [st EXCEPT !.errors = @ + 1]

\* lines 243-251 and the outer except block of lines 291-294; listed is
\* "auth_failed" when it was the login of _ensure_authenticated that raised
ListWorkouts ==
    /\ pc = "list"
    /\ \E outcome \in RequestOutcomes(authenticated), n \in 0..MaxListing :
          IF outcome # "ok"
          THEN /\ listed' = IF outcome = "auth_failed" THEN "auth_failed" ELSE "failed"
               /\ authenticated' = IF outcome = "auth_failed" THEN authenticated
                                    ELSE authenticate(authenticated)
               /\ stats' = ListingFailed(stats)
               /\ tx' = Rollback(db, tx)
               /\ pc' = "ledger"
               /\ UNCHANGED <<listing_len, idx>>
          ELSE /\ listed' = "ok"
               /\ authenticated' = authenticate(authenticated)
               /\ listing_len' = n
               /\ stats' = [stats EXCEPT !.processed = n]
               /\ idx' = 1
               /\ pc' = IF n = 0 THEN "ledger" ELSE "loop"
               /\ UNCHANGED tx
    /\ UNCHANGED <<db, run, authUser, user_id, include_performance,
                   target_user_id, outcomes, last, cur, exc, result>>

\* the inner except block, lines 285-289, and the step to the next payload
WorkoutFailed(p, st, at, detail, violations, before) ==
    /\ stats' = [st EXCEPT !.errors = @ + 1]
    /\ tx' = Rollback(db, tx)
    /\ outcomes' = Append(outcomes, "failed")
    /\ last' = <<[id |-> p.id, result |-> "failed", at |-> at,
                  payload |-> p, detail |-> detail, violations |-> violations,
                  metrics_before |-> before]>>
    /\ cur' = None
    /\ idx' = idx + 1
    /\ pc' = AfterPayload(idx + 1)

\* a gate that does not look at has_pedaling_metrics
DetailWantedWhenComplete(ip, workout) ==
    ip /\ workout.status = "COMPLETE"

\* lines 277-279
DetailWanted(ip, workout) ==
    ip /\ workout.status = "COMPLETE" /\ workout.has_pedaling_metrics

\* lines 254-280: the loop body up to the commit, for the next payload
ReconcileWorkout ==
    /\ pc = "loop"
    /\ \E p \in AccountPayloads(authUser), perf_data \in PerfResponses :
          LET c == extract_workout_components(p)
              s1 == IF c.instructor # None
                    THEN upsert_instructor(tx, c.instructor[1], Now) ELSE tx
              s2 == IF c.ride # None THEN upsert_ride(s1, c.ride[1], Now) ELSE s1
              new == is_new(s2, c.workout)
              s3 == upsert_workout(s2, c.workout, Now)
              counted == IF new THEN [stats EXCEPT !.created = @ + 1]
                         ELSE [stats EXCEPT !.updated = @ + 1]
              s4 == sync_workout_achievements(s3, p, Now)
              wanted == DetailWanted(include_performance, s3.workouts[p.id])
              s5 == IF wanted
                    THEN sync_workout_performance_data(s4, p.id, perf_data, Now)
                    ELSE s4
          IN  IF ExtractRaises(p)
              THEN WorkoutFailed(p, stats, "extract", None, {}, 0)
              ELSE IF TransformAchievementsRaises(p.achievement_templates)
              THEN WorkoutFailed(p, counted, "achievements", None, {},
                                 Len(db.metrics[p.id]))
              ELSE /\ tx' = s5
                   /\ stats' = counted
                   /\ cur' = <<[id |-> p.id, is_new |-> new, payload |-> p,
                                detail |-> IF wanted THEN <<perf_data>> ELSE None,
                                metrics_before |-> Len(db.metrics[p.id])]>>
                   /\ pc' = "commit"
                   /\ UNCHANGED <<idx, outcomes, last>>
    /\ UNCHANGED <<db, run, authUser, authenticated, user_id, include_performance,
                   target_user_id, listed, listing_len, exc, result>>

\* line 283: session.commit(), and the except block when the flush is rejected
CommitWorkout ==
    /\ pc = "commit"
    /\ LET w == cur[1] IN
       IF Violations(tx) = {}
       THEN /\ db' = Commit(db, tx)
            /\ tx' = Commit(db, tx)
            /\ outcomes' = Append(outcomes, IF w.is_new THEN "created" ELSE "updated")
            /\ last' = <<[id |-> w.id,
                          result |-> IF w.is_new THEN "created" ELSE "updated",
                          at |-> "none", payload |-> w.payload,
                          detail |-> w.detail, violations |-> {},
                          metrics_before |-> w.metrics_before]>>
            /\ cur' = None
            /\ idx' = idx + 1
            /\ pc' = AfterPayload(idx + 1)
            /\ UNCHANGED stats
       ELSE /\ WorkoutFailed(w.payload, stats, "commit", w.detail, Violations(tx),
                              w.metrics_before)
            /\ UNCHANGED db
    /\ UNCHANGED <<run, authUser, authenticated, user_id, include_performance,
                   target_user_id, listed, listing_len, exc, result>>

\* lines 380-382
Status(st) ==
    IF st.errors > 0
    THEN (IF st.created + st.updated > 0 THEN "partial" ELSE "error")
    ELSE "success"

\* a ledger that keeps one entry per user: the new entry replaces the user's
\* earlier ones
create_sync_log_replace(s, user, sync_type, status, st, now) ==
    [s EXCEPT !.sync_logs = Append(SelectSeq(@, LAMBDA e : e.user_id # user),
        [id |-> Len(@) + 1, user_id |-> user, sync_type |-> sync_type,
         status |-> status, started_at |-> now, completed_at |-> now,
         workouts_processed |-> st.processed, workouts_created |-> st.created,
         workouts_updated |-> st.updated, errors_count |-> st.errors,
         error_message |-> NULL])]

\* a ledger entry that records every run as a success
create_sync_log_success(s, user, sync_type, status, st, now) ==
    [s EXCEPT !.sync_logs = Append(@,
        [id |-> Len(@) + 1, user_id |-> user, sync_type |-> sync_type,
         status |-> "success", started_at |-> now, completed_at |-> now,
         workouts_processed |-> st.processed, workouts_created |-> st.created,
         workouts_updated |-> st.updated, errors_count |-> st.errors,
         error_message |-> NULL])]

\* create_sync_log: one more row of sync_logs
create_sync_log(s, user, sync_type, status, st, now) ==
    [s EXCEPT !.sync_logs = Append(@,
        [id |-> Len(@) + 1,
         user_id |-> user,
         sync_type |-> sync_type,
         status |-> status,
         started_at |-> now,
         completed_at |-> now,
         workouts_processed |-> st.processed,
         workouts_created |-> st.created,
         workouts_updated |-> st.updated,
         errors_count |-> st.errors,
         error_message |-> NULL])]

\* a query that does not filter by status
get_last_sync_time_any_status(s, user) ==
    LET matching == SelectSeq(s.sync_logs, LAMBDA e : e.user_id = user)
    IN  IF matching = <<>> THEN NoTime ELSE Last(matching).completed_at

\* get_last_sync_time: filter(user_id, status == "success"),
\* order_by(desc(completed_at)), first(); None is NoTime
get_last_sync_time(s, user) ==
    LET matching == SelectSeq(s.sync_logs,
                        LAMBDA e : e.user_id = user /\ e.status = "success")
        first == CHOOSE e \in Range(matching) :
                     \A f \in Range(matching) : e.completed_at >= f.completed_at
    IN  IF matching = <<>> THEN NoTime ELSE first.completed_at

\* lines 379-399: status, ledger entry, commit, result
WriteLedger ==
    /\ pc = "ledger"
    /\ LET status == Status(stats)
           s == create_sync_log(tx, target_user_id, "full", status, stats, Now)
       IN  IF Violations(s) = {}
           THEN /\ db' = Commit(db, s)
                /\ tx' = Commit(db, s)
                /\ result' = <<[status |-> status, user_id |-> target_user_id,
                                stats |-> stats, sync_log_id |-> Len(s.sync_logs)]>>
                /\ pc' = "done"
                /\ UNCHANGED exc
           ELSE /\ Raise("commit")
                /\ UNCHANGED <<db, result>>
    /\ UNCHANGED <<run, authUser, authenticated, user_id, include_performance,
                   target_user_id, listed, listing_len, idx, stats, outcomes, last,
                   cur>>

\* KeyboardInterrupt, or the process dies: no except block runs (they catch
\* Exception); get_session's finally closes the session, the server ends the
\* transaction
Interrupt ==
    /\ pc \in {"user", "list", "loop", "commit", "ledger"}
    /\ tx' = Rollback(db, tx)
    /\ pc' = "interrupted"
    /\ UNCHANGED <<db, run, authUser, authenticated, user_id, include_performance,
                   target_user_id, listed, listing_len, idx, stats, outcomes, last,
                   cur, exc, result>>

\* main.py: the sync command is given, and PelotonDataSync.initialize returns
\* False (no database connection, or the login is refused): full_sync is not
\* called
InitializeFails ==
    /\ pc \in {"idle", "done", "raised", "interrupted"}
    /\ pc' = "init_failed"
    /\ tx' = db
    /\ authUser' = NULL
    /\ authenticated' = FALSE
    /\ user_id' = NULL
    /\ include_performance' = TRUE
    /\ target_user_id' = NULL
    /\ listed' = "no"
    /\ listing_len' = 0
    /\ idx' = 0
    /\ stats' = NoStats
    /\ outcomes' = <<>>
    /\ last' = None
    /\ cur' = None
    /\ exc' = NULL
    /\ result' = None
    /\ UNCHANGED <<db, run>>

\* a sync_data that takes only success for a success
sync_data_strict(position, res) ==
    position = "done" /\ res[1].status = "success"

\* PelotonDataSync.sync_data: True when full_sync returned success or
\* partial, False when it returned error or raised
sync_data(position, res) ==
    IF position = "done"
    THEN (IF res[1].status = "success" THEN TRUE
          ELSE IF res[1].status = "partial" THEN TRUE
          ELSE FALSE)
    ELSE FALSE

\* main(), command sync: the exit code once the command has ended
ExitCode ==
    IF pc = "init_failed" THEN 1
    ELSE IF pc = "interrupted" THEN 1
    ELSE IF sync_data(pc, result) THEN 0 ELSE 1

Next ==
    \/ StartRun
    \/ InitializeFails
    \/ SyncUserData
    \/ ListWorkouts
    \/ ReconcileWorkout
    \/ CommitWorkout
    \/ WriteLedger
    \/ Interrupt

Spec == Init /\ [][Next]_vars

----------------------------------------------------------------------------
(* examples/custom_sync.py: CustomPelotonSync.sync_recent_cycling_workouts, *)
(* the second entry point that writes the ledger.  It runs on the same      *)
(* DataLoader and the same kind of session; its except blocks count and     *)
(* roll back but never re-raise.                                            *)

\* the payloads left by the filter of lines 81-96 (fitness_discipline is
\* cycling, start_time recent or absent)
CyclingPayloads(u) ==
    {Plain(w, u) : w \in WorkoutIds}
    \cup {[Plain("w1", u) EXCEPT !.id = NULL],
          [Plain("w1", u) EXCEPT !.start_time = NoTime],
          [Complete("w1", u) EXCEPT !.achievement_templates = <<"a1">>],
          [Complete("w1", u) EXCEPT !.ride = RideWithoutInstructor]}

\* _is_high_intensity_workout: the ride of the payload has difficulty_estimate
\* >= 7.0, duration >= 1800 or a keyword in its title (intense); a payload
\* without a ride gets the defaults, which give False
is_high_intensity_workout(workout_data, intense) ==
    workout_data.ride # None /\ intense

\* lines 155-159 of _process_single_workout: the gate of the detail sync
CustomDetailWanted(workout, workout_data, intense) ==
    /\ workout.status = "COMPLETE"
    /\ workout.has_pedaling_metrics
    /\ is_high_intensity_workout(workout_data, intense)

\* CustomPelotonSync.initialize has authenticated the client
StartCustomSync ==
    /\ pc \in {"idle", "custom_done"}
    /\ run < MaxRuns
    /\ run' = run + 1
    /\ \E u \in AuthUsers : authUser' = u
    /\ authenticated' = TRUE
    /\ user_id' = NULL
    /\ include_performance' = TRUE
    /\ tx' = db
    /\ pc' = "custom_user"
    /\ target_user_id' = NULL
    /\ listed' = "no"
    /\ listing_len' = 0
    /\ idx' = 0
    /\ stats' = NoStats
    /\ outcomes' = <<>>
    /\ last' = None
    /\ cur' = None
    /\ exc' = NULL
    /\ result' = None
    /\ UNCHANGED db

\* the outer except block, lines 125-128, and the return of stats, line 131
CustomSyncFailed(what) ==
    /\ stats' = [stats EXCEPT !.errors = @ + 1]
    /\ tx' = Rollback(db, tx)
    /\ exc' = what
    /\ result' = <<[stats |-> [stats EXCEPT !.errors = @ + 1]]>>
    /\ pc' = "custom_done"

\* line 73: sync_user_data
CustomSyncUserData ==
    /\ pc = "custom_user"
    /\ \E outcome \in RequestOutcomes(authenticated), c \in RemoteCreatedAts :
          LET user == transform_user_data([id |-> authUser, created_at |-> c])
              s == upsert_user(tx, user, Now)
          IN  IF outcome # "ok"
              THEN CustomSyncFailed("get_user_info")
              ELSE IF Violations(s) # {}
              THEN CustomSyncFailed("flush")
              ELSE /\ tx' = s
                   /\ pc' = "custom_list"
                   /\ UNCHANGED <<stats, exc, result>>
    /\ UNCHANGED <<db, run, authUser, authenticated, user_id, include_performance,
                   target_user_id, listed, listing_len, idx, outcomes, last, cur>>

\* lines 75-99: the listing request and the filter
CustomListWorkouts ==
    /\ pc = "custom_list"
    /\ \E outcome \in RequestOutcomes(authenticated), n \in 0..MaxListing :
          IF outcome # "ok"
          THEN /\ CustomSyncFailed("get_user_workouts")
               /\ listed' = "failed"
               /\ UNCHANGED <<listing_len, idx>>
          ELSE /\ listed' = "ok"
               /\ listing_len' = n
               /\ stats' = [stats EXCEPT !.processed = n]
               /\ idx' = 1
               /\ pc' = IF n = 0 THEN "custom_ledger" ELSE "custom_loop"
               /\ UNCHANGED <<tx, exc, result>>
    /\ UNCHANGED <<db, run, authUser, authenticated, user_id, include_performance,
                   target_user_id, outcomes, last, cur>>

\* lines 101-117 and _process_single_workout: one pass of the loop, with its
\* commit or its rollback
CustomProcessWorkout ==
    /\ pc = "custom_loop"
    /\ \E p \in CyclingPayloads(authUser), intense \in BOOLEAN :
        \E perf_data \in IF CustomDetailWanted(transform_workout_data(p), p, intense)
                          THEN PerfResponses
                          ELSE {CHOOSE r \in PerfResponses : TRUE} :
          LET c == extract_workout_components(p)
              s1 == IF c.instructor # None
                    THEN upsert_instructor(tx, c.instructor[1], Now) ELSE tx
              s2 == IF c.ride # None THEN upsert_ride(s1, c.ride[1], Now) ELSE s1
              new == is_new(s2, c.workout)
              s3 == upsert_workout(s2, c.workout, Now)
              wanted == CustomDetailWanted(s3.workouts[p.id], p, intense)
              s4 == IF wanted
                    THEN sync_workout_performance_data(s3, p.id, perf_data, Now)
                    ELSE s3
              s5 == sync_workout_achievements(s4, p, Now)
              counted == IF new THEN [stats EXCEPT !.created = @ + 1]
                         ELSE [stats EXCEPT !.updated = @ + 1]
              raised == \/ ExtractRaises(p)
                        \/ TransformAchievementsRaises(p.achievement_templates)
              detail == IF wanted THEN <<perf_data>> ELSE None
          IN  IF raised
              THEN /\ stats' = [stats EXCEPT !.errors = @ + 1]
                   /\ tx' = Rollback(db, tx)
                   /\ outcomes' = Append(outcomes, "failed")
                   /\ last' = <<[id |-> p.id, result |-> "failed", at |-> "process",
                                 payload |-> p, detail |-> None, violations |-> {},
                                 metrics_before |-> 0]>>
                   /\ UNCHANGED db
              ELSE IF Violations(s5) # {}
              THEN /\ stats' = [counted EXCEPT !.errors = @ + 1]
                   /\ tx' = Rollback(db, tx)
                   /\ outcomes' = Append(outcomes, "failed")
                   /\ last' = <<[id |-> p.id, result |-> "failed", at |-> "commit",
                                 payload |-> p, detail |-> detail,
                                 violations |-> Violations(s5),
                                 metrics_before |-> Len(db.metrics[p.id])]>>
                   /\ UNCHANGED db
              ELSE /\ stats' = counted
                   /\ db' = Commit(db, s5)
                   /\ tx' = Commit(db, s5)
                   /\ outcomes' = Append(outcomes, IF new THEN "created" ELSE "updated")
                   /\ last' = <<[id |-> p.id,
                                 result |-> IF new THEN "created" ELSE "updated",
                                 at |-> "none", payload |-> p, detail |-> detail,
                                 violations |-> {},
                                 metrics_before |-> Len(db.metrics[p.id])]>>
    /\ idx' = idx + 1
    /\ pc' = IF idx + 1 > listing_len THEN "custom_ledger" ELSE "custom_loop"
    /\ UNCHANGED <<run, authUser, authenticated, user_id, include_performance,
                   target_user_id, listed, listing_len, cur, exc, result>>

\* lines 119-123: the ledger entry, always with status "success", and its commit
CustomWriteLedger ==
    /\ pc = "custom_ledger"
    /\ LET s == create_sync_log(tx, authUser, "custom_cycling", "success", stats, Now)
       IN  IF Violations(s) = {}
           THEN /\ db' = Commit(db, s)
                /\ tx' = Commit(db, s)
                /\ result' = <<[stats |-> stats]>>
                /\ pc' = "custom_done"
                /\ UNCHANGED <<stats, exc>>
           ELSE /\ CustomSyncFailed("commit")
                /\ UNCHANGED db
    /\ UNCHANGED <<run, authUser, authenticated, user_id, include_performance,
                   target_user_id, listed, listing_len, idx, outcomes, last, cur>>

CustomNext ==
    \/ StartCustomSync
    \/ CustomSyncUserData
    \/ CustomListWorkouts
    \/ CustomProcessWorkout
    \/ CustomWriteLedger

CustomSpec == Init /\ [][CustomNext]_vars

----------------------------------------------------------------------------
(* Properties *)

Failed(i) == outcomes[i] = "failed"

Succeeded == {i \in 1..Len(outcomes) : ~Failed(i)}

\* the step in which the loop finishes a payload
PayloadDone == Len(outcomes') = Len(outcomes) + 1

\* C1: an exception raised while one workout is processed is contained:
\* errored counts it, the loop goes on to attempt every payload of the
\* listing once, and full_sync returns a result instead of raising (the
\* ledger entry of the authenticated user is written).
C1_FailureContained ==
    /\ Cardinality({i \in 1..Len(outcomes) : Failed(i)}) <= stats.errors
    /\ (listed = "ok" /\ pc \in {"ledger", "done", "raised"})
           => Len(outcomes) = listing_len
    /\ ~(/\ pc = "raised"
         /\ listed = "ok"
         /\ target_user_id = authUser
         /\ \E i \in 1..Len(outcomes) : Failed(i))

\* C2: after a run that returns, whose listing was fetched, processed is the
\* number of payloads fetched and created + updated + errored = processed.
C2_CountersPartition ==
    (pc = "done" /\ listed = "ok")
        => /\ stats.processed = listing_len
           /\ stats.created + stats.updated + stats.errors = stats.processed

\* C3: a workout is all-or-nothing: the step in which a workout fails leaves
\* the committed store as it was and leaves the open transaction equal to
\* the committed store, so that no later commit of the session can publish
\* one of the failed workout's writes.
C3_AllOrNothing ==
    [][(PayloadDone /\ Last(outcomes') = "failed") => (db' = db /\ tx' = db)]_vars

\* a workout that had written its rows fails, and a later workout of the
\* same run is committed
C3_Witness ==
    /\ Len(outcomes) = 2
    /\ outcomes[1] = "failed"
    /\ outcomes[2] = "created"
    /\ stats.created = 2

\* C4: a workout that was reconciled successfully is in the committed store,
\* as reconciled, when the loop goes on to the next payload, and no later
\* step (a failed workout's rollback, a rejected ledger write, an
\* interruption) takes a workout out of the committed store.
C4_CommittedStays ==
    [][/\ (PayloadDone /\ Last(outcomes') # "failed")
            => /\ last'[1].id \in DOMAIN db'.workouts
               /\ db' = tx
       /\ \A w \in DOMAIN db.workouts : w \in DOMAIN db'.workouts]_vars

\* a workout was committed, the next one failed, and the run was interrupted
C4_Witness ==
    /\ pc = "interrupted"
    /\ Len(outcomes) = 2
    /\ outcomes[1] = "created"
    /\ outcomes[2] = "failed"
    /\ last[1].id \in DOMAIN db.workouts

\* C5: once sync_user_data has succeeded, the User row is in the store for
\* the rest of the run, whatever workouts fail: when each workout and the
\* ledger entry are written.
C5_UserSurvivesRollback ==
    (listed = "ok" /\ pc \in {"loop", "commit", "ledger"})
        => authUser \in DOMAIN tx.users

\* C6: the returned status is success exactly when errored = 0, partial
\* exactly when errored > 0 and at least one workout of the run succeeded,
\* error exactly when errored > 0 and no workout of the run was persisted.
C6_StatusReflectsOutcomes ==
    pc = "done"
        => LET status == result[1].status
               persisted == Cardinality(Succeeded)
           IN  /\ (status = "success") <=> (stats.errors = 0)
               /\ (status = "partial") <=> (stats.errors > 0 /\ persisted > 0)
               /\ (status = "error") <=> (stats.errors > 0 /\ persisted = 0)

\* C7, as claimed: a failed listing request aborts the run; full_sync raises
\* and does not return with a ledger entry written.
C7_ListingFailureAborts ==
    ~(listed = "failed" /\ pc = "done")

\* C7, amended: a failed listing request is contained by sync_workouts:
\* errored becomes 1 while processed, created and updated stay 0, the open
\* transaction is rolled back, and full_sync goes on to the ledger write
\* with status error; it returns that status when the ledger entry is
\* committed and raises only when that commit is rejected.
C7_ListingFailureContained ==
    listed = "failed"
        => /\ stats = [NoStats EXCEPT !.errors = 1]
           /\ outcomes = <<>>
           /\ pc \in {"ledger", "done", "raised", "interrupted"}
           /\ tx = db
           /\ pc = "raised" => exc = "commit"
           /\ pc = "done"
                => /\ result[1].status = "error"
                   /\ Last(db.sync_logs).status = "error"
                   /\ Last(db.sync_logs).errors_count = 1
                   /\ Last(db.sync_logs).workouts_processed = 0

\* the listing failed and full_sync returned
C7_Witness ==
    /\ listed = "failed"
    /\ pc = "done"
    /\ result[1].status = "error"

\* C8: when detail sync ran for a workout, the workout does not fail because
\* of detail data: a failed workout has a cause other than rejected metric
\* rows.
C8_DetailNeverFailsWorkout ==
    (last # None /\ last[1].detail # None /\ last[1].result = "failed")
        => \E v \in last[1].violations : v[1] # "uq_workout_metric_time"

\* the detail request answered, with well-formed summaries and samples
CleanDetail(l) ==
    /\ l.detail # None
    /\ l.detail[1].ok
    /\ Malformed \notin Range(l.detail[1].summaries) \cup Range(l.detail[1].metrics)

\* the series that stored metric rows are the rows of
SeriesOf(rows) ==
    [i \in 1..Len(rows) |-> rows[i].seconds_since_pedaling_start]

\* C9, as claimed: a workout that had N metric rows and is re-synced with a
\* series of length M, 0 <= M < N, has exactly M metric rows, one per sample
\* of that series.
C9_FullReplace ==
    (/\ last # None
     /\ last[1].result # "failed"
     /\ CleanDetail(last[1])
     /\ Len(last[1].detail[1].metrics) < last[1].metrics_before)
        => SeriesOf(db.metrics[last[1].id]) = last[1].detail[1].metrics

\* C9, amended: the same for 1 <= M < N (an empty series is no replacement:
\* the metric sync is skipped and the N rows stay).
C9_FullReplaceNonEmpty ==
    (/\ last # None
     /\ last[1].result # "failed"
     /\ CleanDetail(last[1])
     /\ Len(last[1].detail[1].metrics) >= 1
     /\ Len(last[1].detail[1].metrics) < last[1].metrics_before)
        => SeriesOf(db.metrics[last[1].id]) = last[1].detail[1].metrics

\* a workout with two metric rows was re-synced with a series of one sample
C9_Witness ==
    /\ last # None
    /\ last[1].result = "updated"
    /\ CleanDetail(last[1])
    /\ Len(last[1].detail[1].metrics) = 1
    /\ last[1].metrics_before = 2

\* rows present before and after a step keep primary key and created_at
RowsKeep(before, after) ==
    \A k \in DOMAIN before \cap DOMAIN after :
        /\ after[k].id = before[k].id
        /\ after[k].created_at = before[k].created_at

\* C10: an update of an existing User, Instructor, Ride, Workout or
\* PerformanceSummary row never changes its primary key or its created_at.
C10_CreatedAtKept ==
    [][/\ RowsKeep(db.users, db'.users)
       /\ RowsKeep(db.instructors, db'.instructors)
       /\ RowsKeep(db.rides, db'.rides)
       /\ RowsKeep(db.workouts, db'.workouts)
       /\ RowsKeep(db.summaries, db'.summaries)]_vars

\* the step in which the loop body has reconciled a payload, up to its commit
ReconcileStep == pc = "loop" /\ pc' = "commit"

\* after is before with the candidate upserted by primary key: one row more
\* when the key was absent, the same rows otherwise; the row of the key has
\* the candidate's fields and, when it existed, its old created_at; no other
\* row is touched
UpsertedByKey(before, after, candidate) ==
    LET k == candidate.id IN
    /\ DOMAIN after = DOMAIN before \cup {k}
    /\ \A j \in DOMAIN before \ {k} : after[j] = before[j]
    /\ \A f \in DOMAIN candidate : after[k][f] = candidate[f]
    /\ k \in DOMAIN before => after[k].created_at = before[k].created_at

\* every row is stored under its own primary key
OneRowPerKey(s) ==
    /\ \A k \in DOMAIN s.instructors : s.instructors[k].id = k
    /\ \A k \in DOMAIN s.rides : s.rides[k].id = k
    /\ \A k \in DOMAIN s.workouts : s.workouts[k].id = k

\* C11: an upsert inserts the candidate and reports was_created = true exactly
\* when no row with its primary key exists, and otherwise updates that row in
\* place and reports false; created counts a workout only when it was absent
\* from the store, updated only when it was present; the committed store has
\* one row per primary key.
C11_UpsertByKey ==
    [][/\ ReconcileStep =>
            LET p == cur'[1].payload
                c == extract_workout_components(p)
                absent == p.id \notin DOMAIN db.workouts
            IN  /\ cur'[1].is_new <=> absent
                /\ stats'.created = stats.created + (IF absent THEN 1 ELSE 0)
                /\ stats'.updated = stats.updated + (IF absent THEN 0 ELSE 1)
                /\ UpsertedByKey(tx.workouts, tx'.workouts, c.workout)
                /\ c.ride # None => UpsertedByKey(tx.rides, tx'.rides, c.ride[1])
                /\ c.instructor # None
                      => UpsertedByKey(tx.instructors, tx'.instructors, c.instructor[1])
       /\ OneRowPerKey(db')]_vars

\* the same workout was reconciled twice in a run: inserted, then updated
C11_Witness ==
    /\ outcomes = <<"created", "updated">>
    /\ stats.created = 1
    /\ stats.updated = 1
    /\ DOMAIN db.workouts = {last[1].id}

\* C12: the loop body upserts the Instructor (if present), then the Ride (if
\* present), then the Workout, so every committed Ride with an instructor
\* reference points to a committed Instructor and every committed Workout
\* with a ride reference points to a committed Ride; a committed payload
\* with ride and instructor has left both rows, linked to each other.
C12_NoOrphanCommitted ==
    /\ \A r \in DOMAIN db.rides :
          db.rides[r].instructor_id # NULL
              => db.rides[r].instructor_id \in DOMAIN db.instructors
    /\ \A w \in DOMAIN db.workouts :
          db.workouts[w].ride_id # NULL
              => db.workouts[w].ride_id \in DOMAIN db.rides
    /\ (last # None /\ last[1].result # "failed" /\ last[1].payload.ride # None)
          => LET ride_data == last[1].payload.ride[1] IN
             /\ ride_data.id \in DOMAIN db.rides
             /\ db.workouts[last[1].id].ride_id = ride_data.id
             /\ ride_data.instructor # None
                   => /\ ride_data.instructor[1].id \in DOMAIN db.instructors
                      /\ db.rides[ride_data.id].instructor_id
                             = ride_data.instructor[1].id

\* a payload with a ride and its instructor was committed
C12_Witness ==
    /\ last # None
    /\ last[1].result = "created"
    /\ last[1].payload.ride = RideWithInstructor
    /\ db.workouts[last[1].id].ride_id = "r1"
    /\ db.rides["r1"].instructor_id = "i1"
    /\ "i1" \in DOMAIN db.instructors

\* C13: the performance-graph request is made for a workout only if
\* include_performance is true, the workout's status is COMPLETE and
\* has_pedaling_metrics is true; without the request the workout's summary
\* and metric rows are not touched.
C13_DetailGated ==
    [][ReconcileStep =>
           LET p == cur'[1].payload
               requested == cur'[1].detail # None
           IN  /\ requested => /\ include_performance
                               /\ p.status = "COMPLETE"
                               /\ p.has_pedaling_metrics
               /\ ~requested => /\ tx'.summaries = tx.summaries
                                /\ tx'.metrics = tx.metrics]_vars

\* a COMPLETE workout without pedaling metrics was committed in a run with
\* include_performance, and no detail request was made for it
C13_Witness ==
    /\ last # None
    /\ last[1].result = "created"
    /\ include_performance
    /\ last[1].payload.status = "COMPLETE"
    /\ ~last[1].payload.has_pedaling_metrics
    /\ last[1].detail = None

\* the step in which full_sync returns its result
Returns == pc # "done" /\ pc' = "done"

\* C14: a full_sync run that returns a result has appended exactly one
\* ledger entry, committed after every payload of the listing was processed;
\* the entry's status and four counters are those of the returned result,
\* and no other step of a run changes the committed ledger.
C14_OneEntryPerReturn ==
    [][/\ Returns =>
            LET entry == Last(db'.sync_logs)
                res == result'[1]
            IN  /\ Len(db'.sync_logs) = Len(db.sync_logs) + 1
                /\ listed = "ok" => Len(outcomes) = listing_len
                /\ cur = None
                /\ res.sync_log_id = entry.id
                /\ entry.user_id = res.user_id
                /\ entry.status = res.status
                /\ entry.workouts_processed = res.stats.processed
                /\ entry.workouts_created = res.stats.created
                /\ entry.workouts_updated = res.stats.updated
                /\ entry.errors_count = res.stats.errors
       /\ Len(db'.sync_logs) # Len(db.sync_logs) => Returns]_vars

\* a run with one committed and one failed workout returned partial and left
\* its ledger entry
C14_Witness ==
    /\ pc = "done"
    /\ Len(outcomes) = 2
    /\ result[1].status = "partial"
    /\ result[1].stats.created = 1
    /\ Last(db.sync_logs).status = "partial"
    /\ Last(db.sync_logs).workouts_created = 1
    /\ Last(db.sync_logs).errors_count = 1

\* C15: the ledger is append-only: every step leaves the committed entries
\* it found unchanged and in place, a returning run adds one entry after
\* them, and no two entries have the same id.
C15_LedgerAppendOnly ==
    [][/\ Len(db'.sync_logs) >= Len(db.sync_logs)
       /\ \A i \in 1..Len(db.sync_logs) : db'.sync_logs[i] = db.sync_logs[i]
       /\ Returns => Len(db'.sync_logs) = Len(db.sync_logs) + 1
       /\ \A i, j \in 1..Len(db'.sync_logs) :
             i # j => db'.sync_logs[i].id # db'.sync_logs[j].id]_vars

\* two runs for the same user have returned: two entries
C15_Witness ==
    /\ run = 2
    /\ pc = "done"
    /\ Len(db.sync_logs) = 2
    /\ db.sync_logs[1].user_id = db.sync_logs[2].user_id
    /\ db.sync_logs[1].id # db.sync_logs[2].id

\* C16: get_last_sync_time(user) is none while the ledger has no success
\* entry of the user; a success entry of the user, being the newest, makes
\* its completion timestamp the answer for that user; an entry with status
\* partial or error, or of another user, leaves the answer as it was.
C16_LastSuccessful ==
    [][/\ \A u \in AuthUsers :
             (\A i \in 1..Len(db'.sync_logs) :
                  db'.sync_logs[i].user_id # u \/ db'.sync_logs[i].status # "success")
                 => get_last_sync_time(db', u) = NoTime
       /\ Returns =>
             LET entry == Last(db'.sync_logs) IN
             \A u \in AuthUsers :
                 get_last_sync_time(db', u) =
                     IF entry.user_id = u /\ entry.status = "success"
                     THEN entry.completed_at
                     ELSE get_last_sync_time(db, u)]_vars

\* a success run of u1 was followed by an error run of u1: the answer is the
\* first run's timestamp
C16_Witness ==
    /\ Len(db.sync_logs) = 2
    /\ db.sync_logs[1].user_id = "u1"
    /\ db.sync_logs[1].status = "success"
    /\ db.sync_logs[2].user_id = "u1"
    /\ db.sync_logs[2].status = "error"
    /\ db.sync_logs[2].completed_at > db.sync_logs[1].completed_at
    /\ get_last_sync_time(db, "u1") = db.sync_logs[1].completed_at

\* the ledger entries written by the current run: their timestamps are of
\* this run's clock
EntriesOfRun ==
    {i \in 1..Len(db.sync_logs) : db.sync_logs[i].completed_at >= run * ClockStride}

\* C17: an interruption while a workout is being processed discards the open
\* transaction: the committed store stays as it was, with the workouts
\* committed before and without the workout in flight, nothing of that
\* workout is left to be committed, and the ledger has no entry of the
\* interrupted run.
C17_InterruptRollsBack ==
    [][(pc \in {"loop", "commit"} /\ pc' = "interrupted")
          => /\ db' = db
             /\ tx' = db
             /\ cur # None /\ cur[1].is_new => cur[1].id \notin DOMAIN db'.workouts
             /\ EntriesOfRun' = {}]_vars

\* a run was interrupted between the reconciliation and the commit of its
\* second workout; the first is committed, the second is not
C17_Witness ==
    /\ pc = "interrupted"
    /\ outcomes = <<"created">>
    /\ cur # None
    /\ cur[1].is_new
    /\ DOMAIN db.workouts = {last[1].id}
    /\ cur[1].id # last[1].id
    /\ tx = db
    /\ EntriesOfRun = {}

\* the step that commits the second of two reconciliations of one payload,
\* with the same detail answer, the first of which created the workout
SecondCommit ==
    /\ pc = "commit"
    /\ last # None
    /\ last[1].result = "created"
    /\ cur[1].payload = last[1].payload
    /\ cur[1].detail = last[1].detail
    /\ Len(outcomes') = Len(outcomes) + 1
    /\ Last(outcomes') # "failed"

\* the same rows, but for updated_at
SameButUpdatedAt(before, after) ==
    /\ DOMAIN after = DOMAIN before
    /\ \A k \in DOMAIN before :
          \A f \in DOMAIN before[k] \ {"updated_at"} : after[k][f] = before[k][f]

\* the same child rows, but for created_at
SameButCreatedAt(before, after) ==
    /\ Len(after) = Len(before)
    /\ \A i \in 1..Len(before) :
          \A f \in DOMAIN before[i] \ {"created_at"} : after[i][f] = before[i][f]

\* C18, as claimed: reconciling the same payload twice reports is_new = true,
\* then is_new = false, and leaves the instructor, ride, workout, achievement
\* and metric rows as they were after the first time, but for updated_at.
C18_Idempotent ==
    [][SecondCommit =>
           /\ ~cur[1].is_new
           /\ Last(outcomes') = "updated"
           /\ SameButUpdatedAt(db.instructors, db'.instructors)
           /\ SameButUpdatedAt(db.rides, db'.rides)
           /\ SameButUpdatedAt(db.workouts, db'.workouts)
           /\ db'.achievements = db.achievements
           /\ db'.metrics = db.metrics]_vars

\* C18, amended: the same for the instructor, ride and workout rows; the
\* achievement and metric rows are deleted and inserted again, so they are
\* the same rows but for created_at.
C18_IdempotentContent ==
    [][SecondCommit =>
           /\ ~cur[1].is_new
           /\ Last(outcomes') = "updated"
           /\ SameButUpdatedAt(db.instructors, db'.instructors)
           /\ SameButUpdatedAt(db.rides, db'.rides)
           /\ SameButUpdatedAt(db.workouts, db'.workouts)
           /\ \A w \in WorkoutIds :
                 /\ SameButCreatedAt(db.achievements[w], db'.achievements[w])
                 /\ SameButCreatedAt(db.metrics[w], db'.metrics[w])]_vars

\* a payload with achievements was committed as created and reconciled again;
\* the second reconciliation is about to be committed
C18_Witness ==
    /\ pc = "commit"
    /\ last # None
    /\ last[1].result = "created"
    /\ cur[1].payload = last[1].payload
    /\ cur[1].detail = last[1].detail
    /\ cur[1].payload.achievement_templates = <<"a2", "a1">>
    /\ ~cur[1].is_new
    /\ Violations(tx) = {}
    /\ tx.workouts[cur[1].id].updated_at > db.workouts[cur[1].id].updated_at
    /\ tx.achievements[cur[1].id] # db.achievements[cur[1].id]

\* C19: a store failure in the User upsert or in the ledger write is not
\* contained: the run goes on past these two points only when the store
\* accepted the write, and otherwise full_sync raises with the transaction
\* rolled back, the committed store as it was (the workouts committed in the
\* run included), no result and no ledger entry of the run.
C19_RunLevelStoreError ==
    [][/\ (pc = "user" /\ pc' = "list") => Violations(tx') = {}
       /\ (pc = "ledger" /\ pc' = "done") => Violations(db') = {}
       /\ (pc \in {"user", "ledger"} /\ pc' = "raised" /\ exc' \in {"flush", "commit"})
             => /\ db' = db
                /\ tx' = db
                /\ result' = None
                /\ EntriesOfRun' = {}]_vars

\* the ledger write of a run that had committed a workout was rejected
C19_Witness ==
    /\ pc = "raised"
    /\ exc = "commit"
    /\ outcomes = <<"created">>
    /\ last[1].id \in DOMAIN db.workouts
    /\ result = None
    /\ EntriesOfRun = {}

\* C20: authentication fails only in the first request of a run, the user
\* request, before the listing: full_sync then raises with nothing listed,
\* nothing processed, the store as it was, no result and no ledger entry of
\* the run; it never fails inside sync_workouts, where it would be contained.
C20_AuthFailureAborts ==
    [][/\ listed' # "auth_failed"
       /\ (exc' = "authenticate" /\ exc # "authenticate")
             => /\ pc = "user"
                /\ pc' = "raised"
                /\ listed' = "no"
                /\ outcomes' = <<>>
                /\ stats' = NoStats
                /\ db' = db
                /\ tx' = db
                /\ result' = None
                /\ EntriesOfRun' = {}
       /\ pc' \in {"list", "loop", "commit", "ledger"} => authenticated']_vars

\* the second run's login was refused; the first run's workout and ledger
\* entry are all the store holds
C20_Witness ==
    /\ run = 2
    /\ pc = "raised"
    /\ exc = "authenticate"
    /\ ~authenticated
    /\ DOMAIN db.workouts # {}
    /\ Len(db.sync_logs) = 1
    /\ EntriesOfRun = {}

\* the sync command has ended
Ended == pc \in {"done", "raised", "interrupted", "init_failed"}

\* C21: the exit code of the sync command is 0 when the run returned with
\* status success or partial (the status its ledger entry carries), and is
\* not 0 only when the status is error, when the run raised or was
\* interrupted, or when the initialization failed.
C21_ExitCode ==
    Ended =>
        /\ ExitCode \in {0, 1}
        /\ (pc = "done" /\ Last(db.sync_logs).status \in {"success", "partial"})
               => ExitCode = 0
        /\ ExitCode # 0
               => \/ pc = "done" /\ Last(db.sync_logs).status = "error"
                  \/ pc \in {"raised", "interrupted"}
                  \/ pc = "init_failed"

\* a run with one workout committed and one failed has ended: exit code 0
C21_Witness ==
    /\ pc = "done"
    /\ result[1].status = "partial"
    /\ outcomes = <<"created", "failed">>
    /\ ExitCode = 0

\* C22: a run whose listing is empty upserts the User and finishes: it
\* returns status success with the four counters 0, the User row is
\* committed, and the run has one ledger entry, with status success and
\* the four counters 0.
C22_EmptyListing ==
    (listed = "ok" /\ listing_len = 0 /\ pc \in {"done", "raised"})
        => /\ pc = "done"
           /\ stats = NoStats
           /\ result[1].status = "success"
           /\ result[1].stats = NoStats
           /\ authUser \in DOMAIN db.users
           /\ Cardinality(EntriesOfRun) = 1
           /\ LET entry == Last(db.sync_logs) IN
              /\ entry.status = "success"
              /\ entry.workouts_processed = 0
              /\ entry.workouts_created = 0
              /\ entry.workouts_updated = 0
              /\ entry.errors_count = 0

\* C23: no step deletes a User, Instructor, Ride or Workout row: the primary
\* keys of each of these tables in the committed store only grow; metric and
\* achievement rows change only in the commit of a workout, and only those
\* of that workout.
C23_NoParentDeleted ==
    [][/\ DOMAIN db.users \subseteq DOMAIN db'.users
       /\ DOMAIN db.instructors \subseteq DOMAIN db'.instructors
       /\ DOMAIN db.rides \subseteq DOMAIN db'.rides
       /\ DOMAIN db.workouts \subseteq DOMAIN db'.workouts
       /\ \A w \in WorkoutIds :
             (db'.metrics[w] # db.metrics[w] \/ db'.achievements[w] # db.achievements[w])
                 => (pc = "commit" /\ cur[1].id = w)]_vars

\* metric rows of w1 were deleted by a re-sync while w2 and its achievement
\* rows are in the store
C23_Witness ==
    /\ last # None
    /\ last[1].id = "w1"
    /\ last[1].result = "updated"
    /\ CleanDetail(last[1])
    /\ last[1].metrics_before = 2
    /\ Len(db.metrics["w1"]) = 1
    /\ DOMAIN db.workouts = {"w1", "w2"}
    /\ db.achievements["w2"] # <<>>

\* the achievement ids of stored achievement rows, in order
AchievementIdsOf(rows) ==
    [i \in 1..Len(rows) |-> rows[i].achievement_id]

\* C24: the commit of a workout whose payload has a non-empty achievement
\* list leaves exactly that list as the workout's achievements; with an
\* empty list the workout's achievement rows stay as they were; the rows of
\* every other workout stay as they were.
C24_AchievementsReplaced ==
    [][(PayloadDone /\ Last(outcomes') # "failed")
          => LET p == cur[1].payload IN
             /\ p.achievement_templates # <<>>
                   => AchievementIdsOf(db'.achievements[p.id]) = p.achievement_templates
             /\ p.achievement_templates = <<>>
                   => db'.achievements[p.id] = db.achievements[p.id]
             /\ \A w \in WorkoutIds \ {p.id} :
                   db'.achievements[w] = db.achievements[w]]_vars

\* w1 has the achievements a2, a1 and is reconciled with the list a1; w2 has
\* achievements of its own; the commit is about to happen
C24_Witness ==
    /\ pc = "commit"
    /\ cur[1].id = "w1"
    /\ cur[1].payload.achievement_templates = <<"a1">>
    /\ AchievementIdsOf(db.achievements["w1"]) = <<"a2", "a1">>
    /\ AchievementIdsOf(tx.achievements["w1"]) = <<"a1">>
    /\ db.achievements["w2"] # <<>>
    /\ tx.achievements["w2"] = db.achievements["w2"]
    /\ Violations(tx) = {}

C26_ErrorMessageRecorded ==
    pc = "done"
        => LET entry == Last(db.sync_logs) IN
           /\ (\E i \in 1..Len(outcomes) : Failed(i)) => entry.error_message # NULL
           /\ entry.errors_count = 0 => entry.error_message = NULL

\* C27: every ledger entry with status success has errors_count = 0,
\* whichever entry point wrote it, so the run that get_last_sync_time reports
\* as the last successful one of a user is a run in which no workout failed.
C27_SuccessMeansNoErrors ==
    /\ \A i \in 1..Len(db.sync_logs) :
          db.sync_logs[i].status = "success" => db.sync_logs[i].errors_count = 0
    /\ \A u \in AuthUsers :
          \A i \in 1..Len(db.sync_logs) :
              (/\ db.sync_logs[i].user_id = u
               /\ db.sync_logs[i].status = "success"
               /\ db.sync_logs[i].completed_at = get_last_sync_time(db, u))
                  => db.sync_logs[i].errors_count = 0

\* C28: the ledger entry written by full_sync names the user whose profile
\* and workouts were fetched and written in that run (the authenticated user of
\* the client), also when the caller passes a user_id argument that differs.
C28_LedgerNamesFetchedUser ==
    pc = "done" =>
        \A i \in EntriesOfRun : db.sync_logs[i].user_id = authUser

\* the detail answer of the reconciliation made sync_workout_performance_data
\* raise inside its try block: the request failed, the last summary or a
\* sample of the series is malformed
DetailSwallowed(w) ==
    /\ w.detail # None
    /\ \/ ~w.detail[1].ok
       \/ w.detail[1].summaries # <<>> /\ Last(w.detail[1].summaries) = Malformed
       \/ Malformed \in Range(w.detail[1].metrics)

\* the summary row of workout id, if any
SummaryOf(s, id) == IF id \in DOMAIN s.summaries THEN <<s.summaries[id]>> ELSE None

\* C29: when sync_workout_performance_data swallows a failure, the commit of
\* that workout leaves the workout's stored detail rows as they were: neither
\* the metric rows nor the summary row of the workout change.
C29_SwallowedDetailChangesNothing ==
    [][(/\ pc = "commit"
        /\ DetailSwallowed(cur[1])
        /\ Len(outcomes') = Len(outcomes) + 1
        /\ Last(outcomes') # "failed")
          => /\ db'.metrics[cur[1].id] = db.metrics[cur[1].id]
             /\ SummaryOf(db', cur[1].id) = SummaryOf(db, cur[1].id)]_vars

\* C30: in every ledger entry the timestamps bracket the run: started_at is
\* not later than the moment the run's first workout was processed, and
\* completed_at is not earlier than the moment its last workout was processed.
C30_TimestampsBracketRun ==
    (pc = "done" /\ listing_len >= 1) =>
        \A i \in EntriesOfRun :
            /\ db.sync_logs[i].started_at <= run * ClockStride + 1
            /\ db.sync_logs[i].completed_at >= run * ClockStride + listing_len

====
